---------------------------- MODULE Spec2Model ----------------------------
(***************************************************************************)
(* A model of be/src/connector/connector.h: the connector registry         *)
(* (ConnectorManager, Connector), the scan-range to morsel-queue           *)
(* conversion of DataSourceProvider, the drivers that pull morsels and     *)
(* run one DataSource each, and the epoch protocol of StreamDataSource.    *)
(*                                                                         *)
(* Each part has its own specification (SpecRegistry, SpecConvert,         *)
(* SpecProvider, SpecDrivers, SpecStream, SpecSetters); a part's actions   *)
(* leave the variables of the other parts unchanged.                       *)
(***************************************************************************)
EXTENDS Integers, Sequences, FiniteSets, TLC

(***************************************************************************)
(* Bounds of the model.                                                    *)
(***************************************************************************)
\* connector objects handed to put (each std::unique_ptr is moved once)
NumConnectors == 3
\* scan ranges in one conversion request
MaxRanges == 3
\* rows of one scan range
MaxRows == 2
\* pipeline_dop values tried (besides 8, the value of the spec's scenario)
MaxDop == 4
\* morsels in the queue the drivers consume
MaxMorsels == 2
\* rows stored behind one morsel
MaxRaw == 2
\* table versions and changelog ids a stream is positioned at
MaxVersion == 2
MaxChangelog == 1
\* rows of one epoch, and epochs started on one StreamDataSource
MaxEpochRows == 2
MaxEpochs == 3
\* predicates handed to one DataSource, and runtime filters of one collector
MaxPredicates == 2
MaxFilters == 2

nullptr == 0

VARIABLES
    \* ---- ConnectorManager / Connector ----
    _connectors,   \* ConnectorManager::_connectors: name -> connector or nullptr
    putCall,       \* the put call in progress (between its call and its return)
    putDone,       \* history: the puts that have returned, in order
    got,           \* per planner: what its last get returned, whether it ran
                   \* during a put, and how many puts had returned by then
    factory,       \* the last factory call made on a connector and how it ended
    aborted,       \* the process was ended by a CHECK failure
    \* ---- DataSourceProvider ----
    provider,      \* the provider: its capabilities and its protected fields
    conversion,    \* the last convert_scan_range_to_morsel_queue call: its
                   \* arguments, its status and the queue it returned
    created,       \* DataSources the provider has created for this scan
    observed,      \* the last call made on the provider or on one of its
                   \* sources, and what it wrote to its caller
    \* ---- MorselQueue, drivers and their DataSources ----
    queue,         \* the MorselQueue: _num_morsels and the atomic _pop_index
    rowsIn,        \* rows stored behind each morsel
    driver,        \* per driver: where it is in its loop, the DataSource it
                   \* holds, the call it is inside
    sources,       \* the DataSource objects created so far, by id
    consumed,      \* history: per morsel, the drivers a DataSource was attached
                   \* to it for, in order
    \* ---- StreamDataSource ----
    stream,        \* the stream source: Idle or Reading an epoch, its read
                   \* position, its epoch-local state and its last call
    \* ---- framework-set fields of a DataSource ----
    subject,       \* the DataSource the framework configures: its protected
                   \* fields
    collector,     \* the filters held by the RuntimeFilterProbeCollector
    history        \* history: the updates of the cached flag made in a row,
                   \* what the first of them left, and the last read limit set

registryVars == <<_connectors, putCall, putDone, got, factory, aborted>>
providerVars == <<provider, conversion, created, observed>>

scanVars == <<queue, rowsIn, driver, sources, consumed>>

setterVars == <<subject, collector, history>>

vars == <<registryVars, providerVars, scanVars, stream, setterVars>>

----------------------------------------------------------------------------
(***************************************************************************)
(* Connector and ConnectorManager                                          *)
(***************************************************************************)

\* Connector::HIVE, Connector::JDBC: the names connectors are registered under
Names == {"hive", "jdbc"}

ConnectorIds == 1 .. NumConnectors
\* the threads that look connectors up and call their factories
Planners == {"planner1", "planner2"}

\* Which factory methods a concrete connector overrides.  Connector 1 is a
\* read-only backend (JDBC-like), connector 2 overrides both (HIVE-like),
\* connector 3 overrides neither, later ones repeat the pattern.
OverridesSource(c) == c % 3 # 0
OverridesSink(c) == c % 3 = 2

NoPut == [name |-> "", conn |-> nullptr]
NoGet == [valid |-> FALSE, name |-> "", result |-> nullptr, racy |-> FALSE,
          at |-> 0]
NoFactory == [kind |-> "none", overridden |-> FALSE, outcome |-> "none"]

\* The connector of the first returned put(name, _), nullptr when there is none.
RECURSIVE FirstPut(_, _)
FirstPut(hist, name) ==
    IF hist = <<>> THEN nullptr
    ELSE IF Head(hist)[1] = name THEN Head(hist)[2]
    ELSE FirstPut(Tail(hist), name)

\* The connectors c for which a put(name, c) has returned.
CompletedPuts(hist, name) ==
    {hist[i][2] : i \in {j \in DOMAIN hist : hist[j][1] = name}}

\* The connectors already moved into a put call.
Moved == {putDone[i][2] : i \in DOMAIN putDone}
           \cup (IF putCall = NoPut THEN {} ELSE {putCall.conn})

\* A put that replaces the entry of a name already registered.
PutReplacing(map, name, c) == [map EXCEPT ![name] = c]

\* A put that drops the entry of a name that is registered again.
PutEvictingDuplicate(map, name, c) ==
    [map EXCEPT ![name] = IF map[name] = nullptr THEN c ELSE nullptr]

\* ConnectorManager::put: _connectors.emplace(name, std::move(connector)).
\* An entry already present under the name is kept.
ConnectorManager_put(map, name, c) ==
    IF map[name] = nullptr THEN [map EXCEPT ![name] = c] ELSE map

\* ConnectorManager::get: the registered connector, or nullptr (not found).
ConnectorManager_get(map, name) == map[name]

\* What a get that runs while a put is modifying the unordered_map can
\* return: the map has no lock, so the read races with the write and may see
\* the entry being inserted, miss an entry, or see the map as it was.
RacyGetResults(name) ==
    {nullptr, ConnectorManager_get(_connectors, name)}
        \cup (IF putCall.name = name THEN {putCall.conn} ELSE {})

\* A base factory that hands back a null provider instead of failing.
FactoryReturningNull(overridden) ==
    IF overridden THEN "provider" ELSE "nullptr"

\* Connector::create_data_source_provider / create_data_sink_provider: an
\* override returns a provider; the base body is CHECK(false), which ends
\* the process.
Connector_create_provider(overridden) ==
    IF overridden THEN "provider" ELSE "CHECK_failed"

RegistryStart ==
    /\ _connectors = [n \in Names |-> nullptr]
    /\ putCall = NoPut
    /\ putDone = <<>>
    /\ got = [t \in Planners |-> NoGet]
    /\ factory = NoFactory
    /\ aborted = FALSE

\* put(name, c) is called: the registering thread is now inside put.  It
\* registers the connector objects one after another, in the order of their
\* ids.
PutBegin(name, c) ==
    /\ ~aborted
    /\ putCall = NoPut
    /\ c \notin Moved
    /\ \A d \in ConnectorIds : d < c => d \in Moved
    /\ putCall' = [name |-> name, conn |-> c]
    /\ UNCHANGED <<_connectors, putDone, got, factory, aborted, providerVars, scanVars, stream, setterVars>>

\* put returns: the map holds its result.
PutEnd ==
    /\ ~aborted
    /\ putCall # NoPut
    /\ _connectors' = ConnectorManager_put(_connectors, putCall.name, putCall.conn)
    /\ putDone' = Append(putDone, <<putCall.name, putCall.conn>>)
    /\ putCall' = NoPut
    /\ UNCHANGED <<got, factory, aborted, providerVars, scanVars, stream, setterVars>>

\* Planner t calls get(name).
Get(t, name) ==
    /\ ~aborted
    /\ \E r \in (IF putCall = NoPut
                    THEN {ConnectorManager_get(_connectors, name)}
                    ELSE RacyGetResults(name)) :
          got' = [got EXCEPT ![t] =
                    [valid |-> TRUE, name |-> name, result |-> r,
                     racy |-> putCall # NoPut, at |-> Len(putDone)]]
    /\ UNCHANGED <<_connectors, putCall, putDone, factory, aborted, providerVars, scanVars, stream, setterVars>>

\* Planner t calls a factory method of the connector its get returned.
CallFactory(t, kind) ==
    /\ ~aborted
    /\ got[t].valid
    /\ got[t].result # nullptr
    /\ LET c == got[t].result
           overridden == IF kind = "source" THEN OverridesSource(c)
                                            ELSE OverridesSink(c)
           r == Connector_create_provider(overridden)
       IN  /\ factory' = [kind |-> kind, overridden |-> overridden,
                       outcome |-> IF r = "CHECK_failed" THEN "aborted" ELSE r]
           /\ aborted' = (r = "CHECK_failed")
    /\ UNCHANGED <<_connectors, putCall, putDone, got, providerVars, scanVars, stream, setterVars>>

----------------------------------------------------------------------------
(***************************************************************************)
(* DataSourceProvider: scan ranges to a morsel queue                       *)
(***************************************************************************)

Min(a, b) == IF a < b THEN a ELSE b

\* ceil(a / b), b > 0
CeilDiv(a, b) == (a + b - 1) \div b

\* A TScanRangeParams as the conversion sees it: the rows it covers and
\* whether this backend can interpret it.
ScanRanges == [rows : 1 .. MaxRows, ok : BOOLEAN]

\* The scan-range lists of up to n ranges.
RangeLists(n) == UNION {[1 .. k -> ScanRanges] : k \in 0 .. n}

PipelineDops == (1 .. MaxDop) \cup {8}

\* The backends: accept_empty_scan_ranges() (true in the base class, false
\* for whole-table sources such as MySQL/JDBC), whether the backend can
\* split a range, and whether it can split it physically.
Backends ==
    {b \in [accept_empty : BOOLEAN, splittable : BOOLEAN, physical : BOOLEAN] :
        b.physical => b.splittable}

\* A new provider: the protected fields as the class initialises them.
NewProvider(b) ==
    [accept_empty |-> b.accept_empty, splittable |-> b.splittable,
     physical |-> b.physical,
     _could_split |-> FALSE, _could_split_physically |-> FALSE,
     splitted_scan_rows |-> 0, scan_dop |-> 0]

NoConversion == [status |-> "none", ranges |-> <<>>, pipeline_dop |-> 0,
                 enable_tablet_internal_parallel |-> FALSE, queue |-> <<>>]

\* The base body answering for every backend: an override that is not
\* picked up.
AcceptEmptyBaseOnly(p) == TRUE

\* DataSourceProvider::accept_empty_scan_ranges: true in the base class,
\* false where a backend overrides it.
accept_empty_scan_ranges(p) == p.accept_empty

\* A getter that reads the neighbouring flag.
CouldSplitReadsPhysical(p) == p._could_split_physically

\* DataSourceProvider::could_split and the other getters
could_split(p) == p._could_split
could_split_physically(p) == p._could_split_physically
get_splitted_scan_rows(p) == p.splitted_scan_rows
get_scan_dop(p) == p.scan_dop

\* pipeline::ScanMorsel: the range it covers (0: the whole source, built
\* when there is no range) and its piece of that range.
Morsel(range, piece) == [range |-> range, piece |-> piece]

\* Step 1 of the conversion: one morsel per scan range; a backend that does
\* not accept empty scan ranges gets one morsel for the whole source when
\* the list is empty.
MorselsPerRange(p, ranges) ==
    IF ~accept_empty_scan_ranges(p) /\ Len(ranges) = 0
        THEN <<Morsel(0, 1)>>
        ELSE [i \in 1 .. Len(ranges) |-> Morsel(i, 1)]

\* Step 2: the pieces a range is cut into.  Ranges are cut only while there
\* are fewer of them than drivers, into at most one piece per row.
Pieces(range, n, pipeline_dop) ==
    IF n >= pipeline_dop THEN 1 ELSE Min(range.rows, CeilDiv(pipeline_dop, n))

RECURSIVE SplitMorsels(_, _, _)
SplitMorsels(ranges, i, pipeline_dop) ==
    IF i > Len(ranges) THEN <<>>
    ELSE [j \in 1 .. Pieces(ranges[i], Len(ranges), pipeline_dop) |-> Morsel(i, j)]
            \o SplitMorsels(ranges, i + 1, pipeline_dop)

RECURSIVE SumRows(_, _)
SumRows(ranges, i) ==
    IF i > Len(ranges) THEN 0 ELSE ranges[i].rows + SumRows(ranges, i + 1)

\* A validation that stops after the first range.
MalformedFirstOnly(ranges) == Len(ranges) > 0 /\ ~ranges[1].ok

\* A list is malformed when any of its ranges cannot be interpreted.
Malformed(ranges) == \E i \in DOMAIN ranges : ~ranges[i].ok

\* DataSourceProvider::convert_scan_range_to_morsel_queue: the provider after
\* the call and the call's result.
\* (enable: enable_tablet_internal_parallel; total: num_total_scan_ranges)
convert_scan_range_to_morsel_queue(p, ranges, pipeline_dop, enable, total) ==
    LET split == p.splittable /\ enable
        morsels == IF split /\ Len(ranges) > 0
                      THEN SplitMorsels(ranges, 1, pipeline_dop)
                      ELSE MorselsPerRange(p, ranges)
    IN  IF Malformed(ranges)
           THEN [provider |-> p, status |-> "error", queue |-> <<>>]
           ELSE [provider |->
                     [p EXCEPT
                        !._could_split = split,
                        !._could_split_physically = split /\ p.physical,
                        !.splitted_scan_rows = IF split THEN SumRows(ranges, 1) ELSE 0,
                        !.scan_dop = IF split
                                        THEN Min(pipeline_dop, Len(morsels))
                                        ELSE Min(pipeline_dop, total)],
                 status |-> "ok", queue |-> morsels]

\* DataSourceProvider::MIN_DATA_SOURCE_MEM_BYTES and its neighbours
MIN_DATA_SOURCE_MEM_BYTES == 16 * 1024 * 1024
MAX_DATA_SOURCE_MEM_BYTES == 256 * 1024 * 1024
PER_FIELD_MEM_BYTES == 4 * 1024 * 1024

\* An estimate scaled by the rows of the last split, with the per-field
\* constant as its floor.
MemBytesFromSplitRows(p) ==
    [provider |-> p,
     min_value |-> PER_FIELD_MEM_BYTES * (1 + p.splitted_scan_rows),
     max_value |-> MAX_DATA_SOURCE_MEM_BYTES]

\* DataSourceProvider::default_data_source_mem_bytes: the provider after the
\* call (the method is const) and the two values written to the caller.
default_data_source_mem_bytes(p) ==
    [provider |-> p,
     min_value |-> MIN_DATA_SOURCE_MEM_BYTES,
     max_value |-> MAX_DATA_SOURCE_MEM_BYTES]

\* A peek that records the rows it saw in the provider.
PeekRecordingRows(p, ranges) == [p EXCEPT !.splitted_scan_rows = 1 + SumRows(ranges, 1)]

\* DataSourceProvider::peek_scan_ranges: the base body is empty.
peek_scan_ranges(p, ranges) == p

\* What a call wrote to its caller: two flags and two numbers.
Observed(op, flags, values) == [op |-> op, flags |-> flags, values |-> values]

NoCall == Observed("none", <<FALSE, FALSE>>, <<0, 0>>)

ProviderStart ==
    /\ provider = NewProvider([accept_empty |-> TRUE, splittable |-> FALSE,
                               physical |-> FALSE])
    /\ conversion = NoConversion
    /\ created = 0
    /\ observed = NoCall

\* The fragment converts the scan ranges of this scan, once.
Convert(ranges, pipeline_dop, enable) ==
    /\ conversion.status = "none"
    /\ LET r == convert_scan_range_to_morsel_queue(provider, ranges, pipeline_dop,
                                                   enable, Len(ranges))
       IN  /\ provider' = r.provider
           /\ conversion' = [status |-> r.status, ranges |-> ranges,
                             pipeline_dop |-> pipeline_dop,
                             enable_tablet_internal_parallel |-> enable,
                             queue |-> r.queue]
    /\ UNCHANGED <<created, observed, registryVars, scanVars, stream, setterVars>>

\* The scan creates the DataSource of the next morsel of the queue.
ProviderCreateDataSource ==
    /\ conversion.status = "ok"
    /\ created < Len(conversion.queue)
    /\ created' = created + 1
    /\ observed' = Observed("create_data_source", <<FALSE, FALSE>>, <<created + 1, 0>>)
    /\ UNCHANGED <<provider, conversion, registryVars, scanVars, stream, setterVars>>

\* The scan reads from one of the DataSources created so far.
ProviderSourceGetNext(i) ==
    /\ i \in 1 .. created
    /\ observed' = Observed("get_next", <<FALSE, FALSE>>, <<i, 0>>)
    /\ UNCHANGED <<provider, conversion, created, registryVars, scanVars, stream, setterVars>>

\* The fragment reads the four capability getters.
ReadCapabilities ==
    /\ observed' = Observed("getters",
                            <<could_split(provider), could_split_physically(provider)>>,
                            <<get_splitted_scan_rows(provider), get_scan_dop(provider)>>)
    /\ UNCHANGED <<provider, conversion, created, registryVars, scanVars, stream, setterVars>>

DefaultMemBytes ==
    /\ LET r == default_data_source_mem_bytes(provider)
       IN  /\ provider' = r.provider
           /\ observed' = Observed("default_data_source_mem_bytes", <<FALSE, FALSE>>,
                                   <<r.min_value, r.max_value>>)
    /\ UNCHANGED <<conversion, created, registryVars, scanVars, stream, setterVars>>

PeekScanRanges ==
    /\ provider' = peek_scan_ranges(provider, conversion.ranges)
    /\ observed' = Observed("peek_scan_ranges", <<FALSE, FALSE>>, <<0, 0>>)
    /\ UNCHANGED <<conversion, created, registryVars, scanVars, stream, setterVars>>

----------------------------------------------------------------------------
(***************************************************************************)
(* MorselQueue, drivers and DataSource                                     *)
(***************************************************************************)

\* the driver threads of the scan
Drivers == {"driver1", "driver2"}

MorselIds == 1 .. MaxMorsels

\* A DataSource just constructed: the base-class fields as initialised, and
\* the backend's read state (nothing opened, nothing read).  returned and
\* dropped are history: the rows handed to the caller in batches and the
\* rows read from storage that a predicate or runtime filter removed.
\* close_error says that a close reported a failure to its caller.
\* callers and active are history too: the drivers that have called a method
\* of this DataSource and those inside a call right now.
NewDataSource ==
    [_morsel |-> nullptr, lifecycle |-> "created", status |-> "none",
     raw |-> 0, num |-> 0, bytes |-> 0, cpu |-> 0,
     returned |-> 0, dropped |-> 0,
     close_error |-> FALSE,
     opens |-> 0, closes |-> 0, misordered |-> FALSE,
     callers |-> {}, active |-> {}]

NoSource == [lifecycle |-> "none"]

Idle == [pc |-> "idle", ds |-> nullptr, op |-> "none"]

\* A set_morsel that drops the morsel it is given.
SetMorselDropping(ds, morsel) == ds

\* DataSource::set_morsel
set_morsel(ds, morsel) == [ds EXCEPT !._morsel = morsel]

\* A factory that hands the first DataSource out again.
CreateSharedDataSource(fresh) == 1

\* DataSourceProvider::create_data_source: a new DataSource, owned by the
\* caller alone (DataSourcePtr is a std::unique_ptr).  fresh is the id of
\* the object being allocated.
create_data_source(fresh) == fresh

\* An accessor that reports the rows returned as the rows read.
RawReportsReturned(ds) == ds.num

\* DataSource::raw_rows_read: how many rows read from storage
raw_rows_read(ds) == ds.raw

\* An accessor that reports the rows read as the rows returned.
NumReportsRaw(ds) == ds.raw

\* DataSource::num_rows_read: how many rows returned after filtering
num_rows_read(ds) == ds.num

\* DataSource::num_bytes_read, cpu_time_spent: the bytes read from storage
\* and the CPU time the reads took
num_bytes_read(ds) == ds.bytes
cpu_time_spent(ds) == ds.cpu

\* DataSource::io_time_spent: the base class reports no I/O time
io_time_spent(ds) == 0

\* DataSource::open: Status::OK() in the base class; a backend that cannot
\* acquire its resource returns an error.
DataSource_open(ds, ok) ==
    [ds EXCEPT !.lifecycle = IF ok THEN "opened" ELSE "open_failed",
               !.status = IF ok THEN "OK" ELSE "ERR"]

\* DataSource::get_next: reads r rows from storage, of which k pass the
\* predicates and runtime filters.  A non-empty batch is returned with OK;
\* with nothing left to return the call signals end of data; a failed read
\* returns an error and no batch.  Each row read is 4 bytes wide and
\* costs one unit of CPU time.  The result is the DataSource after the
\* call and the rows of the batch handed to the caller.
DataSource_get_next(ds, r, k, ok) ==
    IF ~ok
       THEN [ds |-> [ds EXCEPT !.lifecycle = "failed", !.status = "ERR"],
             chunk_rows |-> 0]
       ELSE [ds |-> [ds EXCEPT !.raw = @ + r, !.num = @ + k,
                               !.bytes = @ + 4 * r, !.cpu = @ + r,
                               !.lifecycle = IF k > 0 THEN "opened" ELSE "eof",
                               !.status = IF k > 0 THEN "OK" ELSE "EOF"],
             chunk_rows |-> k]

\* A close that releases only what a successful open acquired and reports
\* anything else as an error.
CloseOnlyWhenOpened(ds) ==
    IF ds.lifecycle \in {"opened", "eof", "failed"}
       THEN [ds EXCEPT !.lifecycle = "closed"]
       ELSE [ds EXCEPT !.close_error = TRUE]

\* A close that hands its reader back and with it the counters read so far.
CloseResettingCounters(ds) ==
    [ds EXCEPT !.lifecycle = "closed", !.raw = 0, !.num = 0, !.bytes = 0, !.cpu = 0]

\* DataSource::close: returns void, whatever the state of the DataSource.
DataSource_close(ds) == [ds EXCEPT !.lifecycle = "closed"]

\* What the driver does next, from the state it is in: open once after
\* creating the DataSource, get_next while the last call returned a batch,
\* close from any state (teardown, cancellation), again after a close.
MayCall(pc, op) ==
    CASE op = "open" -> pc = "created"
      [] op = "get_next" -> pc = "opened"
      [] op = "close" -> pc \in {"created", "opened", "open_failed", "failed",
                                  "eof", "closed"}

\* Whether a call about to start breaks the order open, get_next*, close on
\* the DataSource it is made on.
OutOfOrder(ds, op) ==
    CASE op = "open" -> ds.opens >= 1 \/ ds.lifecycle # "created"
      [] op = "get_next" -> ds.lifecycle # "opened" \/ ds.opens # 1
      [] op = "close" -> FALSE

ScanStart ==
    /\ queue = [_num_morsels |-> 0, _pop_index |-> 0]
    /\ rowsIn = 0
    /\ driver = [d \in Drivers |-> Idle]
    /\ sources = [i \in MorselIds |-> NoSource]
    /\ consumed = [m \in MorselIds |-> <<>>]

\* MorselQueue::try_get, first half: idx = _pop_index.load(); an exhausted
\* queue returns nullptr without touching the index.
TryGetLoad(d) ==
    /\ driver[d].pc = "idle"
    /\ driver' = [driver EXCEPT ![d].pc =
                    IF queue._pop_index >= queue._num_morsels THEN "done"
                                                               ELSE "fetch"]
    /\ UNCHANGED <<queue, rowsIn, sources, consumed, registryVars, providerVars, stream, setterVars>>

\* MorselQueue::try_get, second half: idx = _pop_index.fetch_add(1); the
\* morsel at idx, if there is one, goes to this driver, which creates a
\* DataSource for it and attaches the morsel.
TryGetFetchAdd(d) ==
    /\ driver[d].pc = "fetch"
    /\ queue' = [queue EXCEPT !._pop_index = @ + 1]
    /\ IF queue._pop_index < queue._num_morsels
          THEN LET morsel == queue._pop_index + 1
                   fresh == 1 + Cardinality({i \in MorselIds :
                                                sources[i] # NoSource})
                   id == create_data_source(fresh)
                   ds == set_morsel(IF sources[id] = NoSource
                                       THEN NewDataSource ELSE sources[id],
                                    morsel)
               IN  /\ sources' = [sources EXCEPT ![id] = ds]
                   /\ driver' = [driver EXCEPT ![d] =
                                   [pc |-> "created", ds |-> id, op |-> "none"]]
                   /\ consumed' =
                        IF ds._morsel = nullptr THEN consumed
                        ELSE [consumed EXCEPT ![ds._morsel] = Append(@, d)]
          ELSE /\ driver' = [driver EXCEPT ![d].pc = "done"]
               /\ UNCHANGED <<sources, consumed>>
    /\ UNCHANGED <<rowsIn, registryVars, providerVars, stream, setterVars>>

\* Driver d calls op on its DataSource.
CallBegin(d, op) ==
    /\ driver[d].op = "none"
    /\ MayCall(driver[d].pc, op)
    /\ LET id == driver[d].ds
           ds == sources[id]
       IN  sources' = [sources EXCEPT ![id] =
              [ds EXCEPT !.callers = @ \cup {d},
                         !.active = @ \cup {d},
                         !.misordered = @ \/ OutOfOrder(ds, op),
                         !.opens = IF op = "open" THEN Min(@ + 1, 2) ELSE @,
                         !.closes = IF op = "close" THEN Min(@ + 1, 2) ELSE @]]
    /\ driver' = [driver EXCEPT ![d].op = op]
    /\ UNCHANGED <<queue, rowsIn, consumed, registryVars, providerVars, stream, setterVars>>

\* open returns.
OpenEnd(d, ok) ==
    /\ driver[d].op = "open"
    /\ LET id == driver[d].ds
           ds == DataSource_open(sources[id], ok)
       IN  /\ sources' = [sources EXCEPT ![id] = [ds EXCEPT !.active = @ \ {d}]]
           /\ driver' = [driver EXCEPT ![d].op = "none",
                                       ![d].pc = IF ok THEN "opened"
                                                       ELSE "open_failed"]
    /\ UNCHANGED <<queue, rowsIn, consumed, registryVars, providerVars, stream, setterVars>>

\* get_next returns: r more rows were read from storage and k of them passed
\* the filters; with no row to return, storage was read to its end.
GetNextEnd(d, r, k, ok) ==
    /\ driver[d].op = "get_next"
    /\ LET id == driver[d].ds
           left == rowsIn - sources[id].raw
       IN  /\ r <= left
           /\ k <= r
           /\ (ok /\ k = 0) => r = left
           /\ ~ok => (r = 0 /\ k = 0)
           /\ LET res == DataSource_get_next(sources[id], r, k, ok)
              IN  /\ sources' = [sources EXCEPT ![id] =
                        [res.ds EXCEPT !.active = @ \ {d},
                                       !.returned = @ + res.chunk_rows,
                                       !.dropped = @ + (r - k)]]
                  /\ driver' = [driver EXCEPT
                        ![d].op = "none",
                        ![d].pc = CASE res.ds.status = "OK" -> "opened"
                                    [] res.ds.status = "EOF" -> "eof"
                                    [] OTHER -> "failed"]
    /\ UNCHANGED <<queue, rowsIn, consumed, registryVars, providerVars, stream, setterVars>>

\* close returns.
CloseEnd(d) ==
    /\ driver[d].op = "close"
    /\ LET id == driver[d].ds
           ds == DataSource_close(sources[id])
       IN  sources' = [sources EXCEPT ![id] = [ds EXCEPT !.active = @ \ {d}]]
    /\ driver' = [driver EXCEPT ![d].op = "none", ![d].pc = "closed"]
    /\ UNCHANGED <<queue, rowsIn, consumed, registryVars, providerVars, stream, setterVars>>

\* The driver is done with its closed DataSource and goes for the next
\* morsel.  What the DataSource read is kept no longer.
Release(d) ==
    /\ driver[d].op = "none"
    /\ driver[d].pc = "closed"
    /\ sources' = [sources EXCEPT ![driver[d].ds] = [lifecycle |-> "destroyed"]]
    /\ driver' = [driver EXCEPT ![d] = Idle]
    /\ UNCHANGED <<queue, rowsIn, consumed, registryVars, providerVars, stream, setterVars>>

----------------------------------------------------------------------------
(***************************************************************************)
(* StreamDataSource                                                        *)
(***************************************************************************)

Versions == 1 .. MaxVersion
Changelogs == 0 .. MaxChangelog

\* A StreamDataSource before its first epoch.  table_version and
\* changelog_id are the committed read position; error, rows_in_epoch and
\* left (the rows the current epoch still holds) are epoch-local; last and
\* status are the last call and what it returned.  epochs counts the epochs
\* started, failed_at remembers the position of the last failed epoch.
NewStream ==
    [mode |-> "Idle", error |-> FALSE, table_version |-> 0, changelog_id |-> 0,
     rows_in_epoch |-> 0, num_rows |-> 0, left |-> 0,
     last |-> "none", status |-> "none", epochs |-> 0, failed_at |-> <<>>,
     retried |-> FALSE]

\* StreamDataSource::set_offset: positions the read cursor and starts an
\* epoch of n rows; fails, changing nothing, when the position can no longer
\* be retrieved.
StreamDataSource_set_offset(st, table_version, changelog_id, n, ok) ==
    IF ok
       THEN [st EXCEPT !.mode = "Reading",
                       !.table_version = table_version,
                       !.changelog_id = changelog_id,
                       !.rows_in_epoch = 0, !.left = n,
                       !.last = "set_offset", !.status = "OK",
                       !.epochs = @ + 1,
                       !.retried = (st.failed_at = <<table_version, changelog_id>>)]
       ELSE [st EXCEPT !.last = "set_offset", !.status = "ERR"]

\* get_next on a stream: a batch of k rows of the epoch, the end of the
\* epoch, or an error, which ends the epoch and leaves its error state.
StreamDataSource_get_next(st, k, ok) ==
    IF ~ok
       THEN [st EXCEPT !.mode = "Idle", !.error = TRUE,
                       !.last = "get_next", !.status = "ERR",
                       !.failed_at = <<st.table_version, st.changelog_id>>]
    ELSE IF k = 0
       THEN [st EXCEPT !.mode = "Idle",
                       !.last = "get_next", !.status = "END_OF_EPOCH"]
       ELSE [st EXCEPT !.rows_in_epoch = @ + k, !.num_rows = @ + k,
                       !.left = @ - k,
                       !.last = "get_next", !.status = "OK"]

\* A reset that also forgets where the stream was positioned.
ResetDiscardingPosition(st) ==
    [st EXCEPT !.error = FALSE, !.rows_in_epoch = 0, !.left = 0,
               !.table_version = 0, !.changelog_id = 0,
               !.last = "reset_status", !.status = "OK"]

\* StreamDataSource::reset_status: clears the epoch-local state and keeps the
\* committed read position.
StreamDataSource_reset_status(st) ==
    [st EXCEPT !.error = FALSE, !.rows_in_epoch = 0, !.left = 0,
               !.last = "reset_status", !.status = "OK"]

StreamStart == stream = NewStream

\* The driver starts an epoch at a position; after a failed epoch only once
\* it has reset the status.
SetOffset(table_version, changelog_id, n, ok) ==
    /\ stream.mode = "Idle"
    /\ ~stream.error
    /\ stream.epochs < MaxEpochs
    /\ stream' = StreamDataSource_set_offset(stream, table_version,
                                             changelog_id, n, ok)
    /\ UNCHANGED <<registryVars, providerVars, scanVars, setterVars>>

\* The driver pulls the next batch of the epoch.
StreamGetNext(k, ok) ==
    /\ stream.mode = "Reading"
    /\ k <= stream.left
    /\ (ok /\ k = 0) => stream.left = 0
    /\ ~ok => k = 0
    /\ stream' = StreamDataSource_get_next(stream, k, ok)
    /\ UNCHANGED <<registryVars, providerVars, scanVars, setterVars>>

\* The driver resets the status between epochs.
ResetStatus ==
    /\ stream.mode = "Idle"
    /\ stream' = StreamDataSource_reset_status(stream)
    /\ UNCHANGED <<registryVars, providerVars, scanVars, setterVars>>

----------------------------------------------------------------------------
(***************************************************************************)
(* DataSource: the fields set by the framework                             *)
(***************************************************************************)

\* A 64-bit value is held as four 16-bit limbs, most significant first.
LimbBase == 2 ^ 16
SignLimb == 2 ^ 15

\* uint64_t values: zero, small limits, and the values around 2^63 and 2^64
ReadLimits ==
    {<<h, m, m, m>> : h \in {0, SignLimb - 1, SignLimb, LimbBase - 1},
                      m \in {0, LimbBase - 1}}
        \cup {<<0, 0, 0, 10>>}

\* ~x, limb by limb
Complement(x) == [i \in 1 .. 4 |-> LimbBase - 1 - x[i]]

\* x + 1 modulo 2^64: the carry runs from limb i upwards
RECURSIVE AddOne(_, _)
AddOne(x, i) ==
    IF i = 0 THEN x
    ELSE IF x[i] = LimbBase - 1 THEN AddOne([x EXCEPT ![i] = 0], i - 1)
    ELSE [x EXCEPT ![i] = @ + 1]

\* The int64_t a uint64_t converts to: the value itself below 2^63, the
\* value minus 2^64 from 2^63 on.  An int64_t is held as its sign and the
\* limbs of its magnitude.
ToInt64(u) ==
    IF u[1] < SignLimb
       THEN [negative |-> FALSE, magnitude |-> u]
       ELSE [negative |-> TRUE, magnitude |-> AddOne(Complement(u), 4)]

\* int64_t -1: "no limit"
MinusOne == [negative |-> TRUE, magnitude |-> <<0, 0, 0, 1>>]

\* A DataSource of the base class as constructed: _conjunct_ctxs is the
\* number of predicates in the vector, _runtime_filters and _split_context
\* are pointers.
NewBaseDataSource ==
    [_read_limit |-> MinusOne, _has_any_predicate |-> FALSE,
     _conjunct_ctxs |-> 0, _runtime_filters |-> nullptr,
     driver_sequence |-> 0, _split_context |-> nullptr, _morsel |-> nullptr]

\* the one RuntimeFilterProbeCollector of the fragment
TheCollector == 1

NoHistory == [streak |-> 0, first_flag |-> FALSE, limit |-> <<>>]

\* DataSource::has_any_predicate
has_any_predicate(ds) == ds._has_any_predicate

\* DataSource::set_predicates and the setters after it
set_predicates(ds, predicates) == [ds EXCEPT !._conjunct_ctxs = predicates]
set_runtime_filters(ds, runtime_filters) == [ds EXCEPT !._runtime_filters = runtime_filters]
set_read_limit(ds, limit) == [ds EXCEPT !._read_limit = ToInt64(limit)]
set_split_context(ds, split_context) == [ds EXCEPT !._split_context = split_context]
set_driver_sequence(ds, driver_sequence) == [ds EXCEPT !.driver_sequence = driver_sequence]

\* An update that folds the flag it finds into the flag it computes.
UpdateFoldingOldFlag(ds, filters) ==
    [ds EXCEPT !._has_any_predicate =
        (@ # (ds._conjunct_ctxs > 0 \/ (ds._runtime_filters # nullptr /\ filters > 0)))]

\* An update that looks at the predicates only.
UpdateFromPredicatesOnly(ds, filters) ==
    [ds EXCEPT !._has_any_predicate = (ds._conjunct_ctxs > 0)]

\* DataSource::update_has_any_predicate: the flag is recomputed from the
\* predicates and from the filters of the collector the DataSource points
\* to (filters: how many the collector holds).
update_has_any_predicate(ds, filters) ==
    [ds EXCEPT !._has_any_predicate =
        (ds._conjunct_ctxs > 0 \/ (ds._runtime_filters # nullptr /\ filters > 0))]

SetterStart ==
    /\ subject = NewBaseDataSource
    /\ collector = 0
    /\ history = NoHistory

SetPredicates(predicates) ==
    /\ subject' = set_predicates(subject, predicates)
    /\ history' = [history EXCEPT !.streak = 0]
    /\ UNCHANGED <<collector, registryVars, providerVars, scanVars, stream>>

SetRuntimeFilters(runtime_filters) ==
    /\ subject' = set_runtime_filters(subject, runtime_filters)
    /\ history' = [history EXCEPT !.streak = 0]
    /\ UNCHANGED <<collector, registryVars, providerVars, scanVars, stream>>

SetReadLimit(limit) ==
    /\ subject' = set_read_limit(subject, limit)
    /\ history' = [history EXCEPT !.limit = limit]
    /\ UNCHANGED <<collector, registryVars, providerVars, scanVars, stream>>

SetSplitContext(split_context) ==
    /\ subject' = set_split_context(subject, split_context)
    /\ UNCHANGED <<collector, history, registryVars, providerVars, scanVars, stream>>

SetMorsel(morsel) ==
    /\ subject' = set_morsel(subject, morsel)
    /\ UNCHANGED <<collector, history, registryVars, providerVars, scanVars, stream>>

SetDriverSequence(driver_sequence) ==
    /\ subject' = set_driver_sequence(subject, driver_sequence)
    /\ UNCHANGED <<collector, history, registryVars, providerVars, scanVars, stream>>

\* update_has_any_predicate is called; the history counts the calls made
\* since the predicates, the collector pointer or the collector last changed.
UpdateHasAnyPredicate ==
    /\ subject' = update_has_any_predicate(subject, collector)
    /\ history' = [history EXCEPT
                      !.streak = Min(@ + 1, 2),
                      !.first_flag = IF history.streak = 0
                                        THEN has_any_predicate(subject')
                                        ELSE @]
    /\ UNCHANGED <<collector, registryVars, providerVars, scanVars, stream>>

\* A runtime filter arrives at the collector.
AddFilter ==
    /\ collector < MaxFilters
    /\ collector' = collector + 1
    /\ history' = [history EXCEPT !.streak = 0]
    /\ UNCHANGED <<subject, registryVars, providerVars, scanVars, stream>>

----------------------------------------------------------------------------
(***************************************************************************)
(* Specifications                                                          *)
(***************************************************************************)

InitRegistry ==
    RegistryStart /\ ProviderStart /\ ScanStart /\ StreamStart /\ SetterStart

NextRegistry ==
    \/ \E n \in Names, c \in ConnectorIds : PutBegin(n, c)
    \/ PutEnd
    \/ \E t \in Planners, n \in Names : Get(t, n)
    \/ \E t \in Planners, k \in {"source", "sink"} : CallFactory(t, k)

SpecRegistry == InitRegistry /\ [][NextRegistry]_vars

InitConvert ==
    /\ RegistryStart
    /\ ScanStart
    /\ StreamStart
    /\ SetterStart
    /\ \E b \in Backends : provider = NewProvider(b)
    /\ conversion = NoConversion
    /\ created = 0
    /\ observed = NoCall

\* The conversion request is drawn only while none has been made.
NextConvert ==
    /\ conversion.status = "none"
    /\ \E ranges \in RangeLists(MaxRanges), dop \in PipelineDops, enable \in BOOLEAN :
          Convert(ranges, dop, enable)

SpecConvert == InitConvert /\ [][NextConvert]_vars

\* One provider over its life: the conversion of the scan's ranges, then the
\* calls the fragment and the scan make on it, in any order.
ConvertStep ==
    /\ conversion.status = "none"
    /\ \E ranges \in RangeLists(MaxRanges - 1), dop \in PipelineDops, enable \in BOOLEAN :
          Convert(ranges, dop, enable)

NextProvider ==
    \/ ConvertStep
    \/ ProviderCreateDataSource
    \/ \E i \in 1 .. created : ProviderSourceGetNext(i)
    \/ ReadCapabilities
    \/ DefaultMemBytes
    \/ PeekScanRanges

SpecProvider == InitConvert /\ [][NextProvider]_vars

InitDrivers ==
    /\ RegistryStart
    /\ ProviderStart
    /\ StreamStart
    /\ SetterStart
    /\ \E k \in 0 .. MaxMorsels : queue = [_num_morsels |-> k, _pop_index |-> 0]
    /\ rowsIn \in 0 .. MaxRaw
    /\ driver = [d \in Drivers |-> Idle]
    /\ sources = [i \in MorselIds |-> NoSource]
    /\ consumed = [m \in MorselIds |-> <<>>]

NextDrivers ==
    \/ \E d \in Drivers : TryGetLoad(d)
    \/ \E d \in Drivers : TryGetFetchAdd(d)
    \/ \E d \in Drivers, op \in {"open", "get_next", "close"} : CallBegin(d, op)
    \/ \E d \in Drivers, ok \in BOOLEAN : OpenEnd(d, ok)
    \/ \E d \in Drivers, r \in 0 .. MaxRaw, k \in 0 .. MaxRaw, ok \in BOOLEAN :
          GetNextEnd(d, r, k, ok)
    \/ \E d \in Drivers : CloseEnd(d)
    \/ \E d \in Drivers : Release(d)

SpecDrivers == InitDrivers /\ [][NextDrivers]_vars

InitStream ==
    RegistryStart /\ ProviderStart /\ ScanStart /\ StreamStart /\ SetterStart

StreamGetNextStep == \E k \in 0 .. MaxEpochRows, ok \in BOOLEAN : StreamGetNext(k, ok)

NextStream ==
    \/ \E tv \in Versions, cid \in Changelogs, n \in 0 .. MaxEpochRows, ok \in BOOLEAN :
          SetOffset(tv, cid, n, ok)
    \/ StreamGetNextStep
    \/ ResetStatus

\* The driver of a stream keeps pulling while an epoch is open.
SpecStream == InitStream /\ [][NextStream]_vars /\ WF_vars(StreamGetNextStep)

\* One DataSource and the calls the framework makes to configure it, in
\* any order.
InitSetters ==
    RegistryStart /\ ProviderStart /\ ScanStart /\ StreamStart /\ SetterStart

NextSetters ==
    \/ \E predicates \in 0 .. MaxPredicates : SetPredicates(predicates)
    \/ \E runtime_filters \in {nullptr, TheCollector} : SetRuntimeFilters(runtime_filters)
    \/ \E limit \in ReadLimits : SetReadLimit(limit)
    \/ \E split_context \in {nullptr, 1} : SetSplitContext(split_context)
    \/ \E morsel \in {nullptr, 1} : SetMorsel(morsel)
    \/ \E driver_sequence \in {0, 1} : SetDriverSequence(driver_sequence)
    \/ UpdateHasAnyPredicate
    \/ AddFilter

SpecSetters == InitSetters /\ [][NextSetters]_vars

----------------------------------------------------------------------------
(***************************************************************************)
(* Properties of the registry                                              *)
(***************************************************************************)

\* The puts that had returned when planner t made its last get.
PutsBefore(t) == SubSeq(putDone, 1, got[t].at)

C7_UnsupportedDirectionAborts ==
    (factory.kind # "none" /\ ~factory.overridden) =>
        (factory.outcome = "aborted" /\ aborted)

\* A planner asked a registered read-only connector for a sink provider and
\* the call ended the process.
C7_Witness ==
    /\ factory.kind = "sink" /\ ~factory.overridden
    /\ factory.outcome = "aborted" /\ aborted
    /\ \E t \in Planners : got[t].valid /\ ~got[t].racy /\ got[t].result # nullptr
                             /\ ~OverridesSink(got[t].result)

----------------------------------------------------------------------------
(***************************************************************************)
(* Properties of the conversion                                            *)
(***************************************************************************)

Converted == conversion.status # "none"

\* The number of scan ranges given to the conversion.
N == Len(conversion.ranges)

C4_EmptyListStillScans ==
    (Converted /\ ~provider.accept_empty /\ N = 0) =>
        /\ conversion.status = "ok"
        /\ Len(conversion.queue) >= 1
        /\ \A i \in DOMAIN conversion.queue : conversion.queue[i].range = 0

\* The splitting conversion (a splittable backend, tablet-internal
\* parallelism enabled) was given no range and returned the whole-source
\* morsel.
C4_Witness ==
    /\ conversion.status = "ok"
    /\ ~provider.accept_empty /\ provider.splittable
    /\ conversion.enable_tablet_internal_parallel
    /\ N = 0
    /\ conversion.queue = <<Morsel(0, 1)>>

----------------------------------------------------------------------------
(***************************************************************************)
(* Properties of the morsel queue, the drivers and their DataSources       *)
(***************************************************************************)

\* The DataSource objects that exist (created and not yet destroyed).
Live == {i \in MorselIds : sources[i].lifecycle \notin {"none", "destroyed"}}

AllDone == \A d \in Drivers : driver[d].pc = "done"

\* C2: no morsel is ever attached to the DataSource of more than one
\* consumer, and when every consumer has found the queue empty each of the
\* K morsels has been delivered exactly once: K deliveries in all.
C2_EachMorselOnce ==
    /\ \A m \in MorselIds : Len(consumed[m]) <= 1
    /\ \A m \in MorselIds : m > queue._num_morsels => consumed[m] = <<>>
    /\ AllDone => \A m \in 1 .. queue._num_morsels : Len(consumed[m]) = 1

\* Both drivers have taken morsels of a full queue and drained it.
C2_Witness ==
    /\ AllDone
    /\ queue._num_morsels = MaxMorsels
    /\ \A m \in MorselIds : Len(consumed[m]) = 1
    /\ \A d \in Drivers : \E m \in MorselIds : consumed[m] = <<d>>

\* C5: once get_next has signalled end of data, and so when close is called,
\* the rows of the batches get_next returned add up to num_rows_read().
C5_ReturnedEqualsNumRowsRead ==
    \A i \in Live :
        sources[i].status = "EOF" =>
            sources[i].returned = num_rows_read(sources[i])

\* A DataSource read to its end and closed; it returned rows and filtered
\* rows out.
C5_Witness ==
    \E i \in Live :
        /\ sources[i].lifecycle = "closed" /\ sources[i].status = "EOF"
        /\ sources[i].returned >= 1 /\ sources[i].dropped >= 1
        /\ sources[i].returned = num_rows_read(sources[i])

\* C6: raw_rows_read() >= num_rows_read() in every state, strictly once a
\* row read from storage has been filtered out.
C6_RawAtLeastNum ==
    \A i \in Live :
        /\ raw_rows_read(sources[i]) >= num_rows_read(sources[i])
        /\ sources[i].dropped >= 1 =>
               raw_rows_read(sources[i]) > num_rows_read(sources[i])

\* A DataSource that returned a row and filtered one out.
C6_Witness ==
    \E i \in Live :
        /\ sources[i].dropped >= 1 /\ sources[i].returned >= 1
        /\ raw_rows_read(sources[i]) > num_rows_read(sources[i])
        /\ num_rows_read(sources[i]) >= 1

\* C8: a close that has been called returns, and once it has returned the
\* DataSource is closed and no error was reported, whatever state it was
\* called in and however often.
C8_CloseAlwaysCompletes ==
    /\ \A d \in Drivers : driver[d].op = "close" => ENABLED CloseEnd(d)
    /\ \A i \in Live :
          (sources[i].closes >= 1 /\ sources[i].active = {}) =>
              (sources[i].lifecycle = "closed" /\ ~sources[i].close_error)

\* A DataSource whose open failed was closed twice; another was closed
\* without ever being opened.
C8_Witness ==
    /\ \E i \in Live :
          /\ sources[i].lifecycle = "closed" /\ sources[i].active = {}
          /\ sources[i].opens = 1 /\ sources[i].status = "ERR"
          /\ sources[i].raw = 0
          /\ sources[i].closes = 2
    /\ \E j \in Live :
          /\ sources[j].lifecycle = "closed" /\ sources[j].active = {}
          /\ sources[j].opens = 0

----------------------------------------------------------------------------
(***************************************************************************)
(* Properties of the stream source                                         *)
(***************************************************************************)

Position(st) == <<st.table_version, st.changelog_id>>

----------------------------------------------------------------------------
(***************************************************************************)
(* DataSourceProvider after the conversion (SpecProvider)                  *)
(***************************************************************************)

\* C12: a list with a malformed scan range makes the conversion return an
\* error, with no morsel queue and no DataSource created for any range; the
\* empty list is not an error.
C12_MalformedRangeFailsWholeConversion ==
    /\ (Converted /\ \E i \in DOMAIN conversion.ranges : ~conversion.ranges[i].ok) =>
          /\ conversion.status = "error"
          /\ conversion.queue = <<>>
          /\ created = 0
    /\ (Converted /\ conversion.ranges = <<>>) => conversion.status = "ok"

\* a two-range list whose second range is malformed was refused, and calls
\* have been made on the provider since
C12_Witness ==
    /\ conversion.status = "error"
    /\ Len(conversion.ranges) = 2
    /\ conversion.ranges[1].ok
    /\ ~conversion.ranges[2].ok
    /\ observed.op # "none"

\* The four values the capability getters answer with.
Capabilities(p) ==
    <<could_split(p), could_split_physically(p), get_splitted_scan_rows(p), get_scan_dop(p)>>

\* C13: once the conversion has returned, no call on the provider or on its
\* sources (create_data_source, the getters, default_data_source_mem_bytes,
\* peek_scan_ranges, get_next) changes what the four getters answer, in any
\* order of the calls.
C13_CapabilitiesFrozenAfterConvert ==
    [][Converted => Capabilities(provider)' = Capabilities(provider)]_vars

\* a split conversion wrote the four fields, a DataSource was created and
\* read from, and the getters still answer what the conversion wrote
C13_Witness ==
    /\ conversion.status = "ok"
    /\ could_split(provider)
    /\ get_splitted_scan_rows(provider) = SumRows(conversion.ranges, 1)
    /\ get_splitted_scan_rows(provider) > 0
    /\ get_scan_dop(provider) > 0
    /\ created > 0
    /\ observed.op = "get_next"

\* C15: default_data_source_mem_bytes writes 16 MiB to min_value and 256 MiB
\* to max_value, so min_value <= max_value, whatever was called before, and
\* the call changes no state of the provider.
C15_DefaultMemBytesAreTheConstants ==
    /\ [](observed.op = "default_data_source_mem_bytes" =>
            /\ observed.values[1] = 16777216
            /\ observed.values[2] = 268435456
            /\ observed.values[1] <= observed.values[2])
    /\ [][DefaultMemBytes => provider' = provider]_vars

\* the call was made on a provider whose conversion split its ranges
C15_Witness ==
    /\ observed.op = "default_data_source_mem_bytes"
    /\ observed.values = <<MIN_DATA_SOURCE_MEM_BYTES, MAX_DATA_SOURCE_MEM_BYTES>>
    /\ could_split(provider)
    /\ get_splitted_scan_rows(provider) > 1


----------------------------------------------------------------------------
(***************************************************************************)
(* The registry over time (SpecRegistry)                                   *)
(***************************************************************************)

----------------------------------------------------------------------------
(***************************************************************************)
(* Lifetime statistics of a DataSource (SpecDrivers)                       *)
(***************************************************************************)

\* The five lifetime statistics a DataSource reports.
Statistics(ds) ==
    <<raw_rows_read(ds), num_rows_read(ds), num_bytes_read(ds),
      cpu_time_spent(ds), io_time_spent(ds)>>

\* C14: from one state of a DataSource to the next, across set_morsel,
\* open, get_next and close, none of raw_rows_read, num_rows_read,
\* num_bytes_read, cpu_time_spent and io_time_spent gets smaller.
C14_StatisticsNeverDecrease ==
    [][\A i \in MorselIds :
          (i \in Live /\ sources'[i].lifecycle \notin {"none", "destroyed"}) =>
              \A j \in 1 .. 5 :
                  Statistics(sources'[i])[j] >= Statistics(sources[i])[j]]_vars

\* a DataSource that read all its rows and filtered one out has been closed
\* and still reports what it read
C14_Witness ==
    \E i \in Live :
        /\ sources[i].lifecycle = "closed"
        /\ raw_rows_read(sources[i]) = MaxRaw
        /\ num_rows_read(sources[i]) > 0
        /\ num_rows_read(sources[i]) < raw_rows_read(sources[i])
        /\ num_bytes_read(sources[i]) > 0
        /\ cpu_time_spent(sources[i]) > 0


----------------------------------------------------------------------------
(***************************************************************************)
(* The framework-set fields of a DataSource (SpecSetters)                  *)
(***************************************************************************)

\* What the flag should say: there is a predicate, or the collector the
\* DataSource points to holds a filter.
AnyPredicate ==
    \/ subject._conjunct_ctxs > 0
    \/ (subject._runtime_filters # nullptr /\ collector > 0)

\* C11: a second update_has_any_predicate, with no set_predicates, no
\* set_runtime_filters and no change of the collector since the first,
\* leaves has_any_predicate() as the first left it.
C11_UpdateTwiceSameFlag ==
    history.streak = 2 => has_any_predicate(subject) = history.first_flag

\* two updates in a row, with other setters between them, on a DataSource
\* whose flag they set
C11_Witness ==
    /\ history.streak = 2
    /\ has_any_predicate(subject)
    /\ history.first_flag
    /\ history.limit # <<>>

\* C16: has_any_predicate() is false on a new DataSource; only
\* update_has_any_predicate changes it (the six setters and the arrival of
\* a filter leave it as it was); after update_has_any_predicate it is true
\* exactly when there is a predicate or the collector holds a filter.
C16_FlagChangedOnlyByUpdate ==
    /\ [](subject = NewBaseDataSource => ~has_any_predicate(subject))
    /\ [](history.streak > 0 => (has_any_predicate(subject) <=> AnyPredicate))
    /\ [][~UpdateHasAnyPredicate =>
             has_any_predicate(subject') = has_any_predicate(subject)]_vars

\* an update set the flag, the predicates and the collector pointer were
\* cleared since and the flag has not been updated: it still says there is
\* a predicate
C16_Witness ==
    /\ has_any_predicate(subject)
    /\ subject._conjunct_ctxs = 0
    /\ subject._runtime_filters = nullptr
    /\ collector > 0
    /\ history.streak = 0

\* C17 as stated: after set_read_limit(L) the stored limit is L, is not
\* negative and is not -1 ("no limit"), for every 64-bit L.
C17_AsStated ==
    history.limit # <<>> =>
        /\ ~subject._read_limit.negative
        /\ subject._read_limit.magnitude = history.limit
        /\ subject._read_limit # MinusOne

=============================================================================
